---- MODULE Spec2Model ----
(***************************************************************************)
(* The generator / worker / collector / closer / aggregator pipeline of    *)
(* precode.go as a state machine.  Every goroutine is a process with a     *)
(* program counter; an unbuffered channel operation is a rendezvous of a   *)
(* sender standing at its send and a receiver standing at its receive;     *)
(* chOut is a FIFO buffer of capacity NumOut.                              *)
(*                                                                         *)
(* The goroutines are started one after another by main (lines 64-111).    *)
(* A goroutine that has not been started yet behaves like one that has     *)
(* not been scheduled yet, so Init places every goroutine at its first     *)
(* statement, with wg already holding the NumOut wg.Add(1) calls that main *)
(* makes before it starts the closer (line 90 precedes line 106).          *)
(***************************************************************************)
EXTENDS Integers, Sequences, FiniteSets, TLC

\* const NumOut (precode.go:70 sets 5); the model checks a smaller pool.
NumOut == 2

\* The largest value the generator may emit before the deadline fires.
MaxVal == 3

Workers == 1..NumOut

VARIABLES
    cancelled,      \* ctx.Done() is closed (deadline passed or cancel called)
    gpc,            \* Generator: "select" | "send" | "fnSum" | "fnCount" | "done"
    i,              \* Generator: var i int64
    chInCloses,     \* number of close(chIn) executed
    inputSum,       \* main: var inputSum int64
    inputCount,     \* main: var inputCount int64
    wpc,            \* Worker w: "recv" | "send" | "done"
    wv,             \* Worker w: the loop variable v
    outsCloses,     \* number of close(outs[w]) executed
    cpc,            \* Collector c: "recv" | "tally" | "send" | "done"
    cv,             \* Collector c: the loop variable v
    amounts,        \* main: amounts []int64
    wg,             \* sync.WaitGroup counter
    chOut,          \* buffer of chOut (capacity NumOut)
    chOutCloses,    \* number of close(chOut) executed
    clpc,           \* Closer: "wait" | "close" | "done"
    mpc,            \* main: "range" | "verify" | "done"
    count,          \* main: var count int64
    sum,            \* main: var sum int64
    verdict,        \* outcome of the checks at lines 134-145
    \* history of the run (not program state)
    delivered,      \* values handed over on chIn, in order
    observed,       \* arguments of the calls of fn, in order
    wrecv,          \* per worker: values received from chIn, in order
    wsent,          \* per worker: values handed over on outs[w], in order
    csent,          \* per collector: values placed on chOut, in order
    got             \* values main received from chOut, in order

vars == <<cancelled, gpc, i, chInCloses, inputSum, inputCount, wpc, wv,
          outsCloses, cpc, cv, amounts, wg, chOut, chOutCloses, clpc, mpc,
          count, sum, verdict, delivered, observed, wrecv, wsent, csent, got>>

genVars == <<gpc, i, chInCloses, inputSum, inputCount, delivered, observed>>
workerVars == <<wpc, wv, outsCloses, wrecv, wsent>>
collectorVars == <<cpc, cv, amounts, wg, csent>>
closerVars == <<clpc, chOutCloses>>
mainVars == <<mpc, count, sum, verdict, got>>

Range(s) == {s[k] : k \in 1..Len(s)}

RECURSIVE SeqSum(_)
SeqSum(s) == IF s = <<>> THEN 0 ELSE Head(s) + SeqSum(Tail(s))

RECURSIVE SumTo(_, _)
\* f[1] + ... + f[n]
SumTo(f, n) == IF n = 0 THEN 0 ELSE f[n] + SumTo(f, n - 1)

Init ==
    /\ cancelled = FALSE
    /\ gpc = "select"
    /\ i = 1
    /\ chInCloses = 0
    /\ inputSum = 0
    /\ inputCount = 0
    /\ wpc = [w \in Workers |-> "recv"]
    /\ wv = [w \in Workers |-> 0]
    /\ outsCloses = [w \in Workers |-> 0]
    /\ cpc = [c \in Workers |-> "recv"]
    /\ cv = [c \in Workers |-> 0]
    /\ amounts = [c \in Workers |-> 0]
    /\ wg = NumOut
    /\ chOut = <<>>
    /\ chOutCloses = 0
    /\ clpc = "wait"
    /\ mpc = "range"
    /\ count = 0
    /\ sum = 0
    /\ verdict = "none"
    /\ delivered = <<>>
    /\ observed = <<>>
    /\ wrecv = [w \in Workers |-> <<>>]
    /\ wsent = [w \in Workers |-> <<>>]
    /\ csent = [c \in Workers |-> <<>>]
    /\ got = <<>>

\* The deadline of context.WithTimeout passes: ctx.Done() is closed.
Timeout ==
    /\ ~cancelled
    /\ cancelled' = TRUE
    /\ UNCHANGED <<genVars, workerVars, collectorVars, closerVars, mainVars, chOut>>

----
\* Generator

\* Variant: the ctx.Done() case closes the channel but does not return.
GeneratorSelectNoReturn ==
    /\ gpc = "select"
    /\ i <= MaxVal
    /\ gpc' = "send"
    /\ chInCloses' = IF cancelled /\ chInCloses = 0 THEN 1 ELSE chInCloses
    /\ UNCHANGED <<cancelled, i, inputSum, inputCount, delivered, observed,
                   workerVars, collectorVars, closerVars, mainVars, chOut>>

\* Variant: the loop sends first and looks at ctx.Done() only from the
\* second iteration on.
GeneratorSelectSendFirst ==
    /\ gpc = "select"
    /\ IF cancelled /\ i > 1
         THEN /\ gpc' = "done"
              /\ chInCloses' = chInCloses + 1
         ELSE /\ i <= MaxVal
              /\ gpc' = "send"
              /\ UNCHANGED chInCloses
    /\ UNCHANGED <<cancelled, i, inputSum, inputCount, delivered, observed,
                   workerVars, collectorVars, closerVars, mainVars, chOut>>

\* Variant: ctx.Done() is looked at on every second iteration only.
GeneratorSelectBatched ==
    /\ gpc = "select"
    /\ IF cancelled /\ i % 2 = 1
         THEN /\ gpc' = "done"
              /\ chInCloses' = chInCloses + 1
         ELSE /\ i <= MaxVal
              /\ gpc' = "send"
              /\ UNCHANGED chInCloses
    /\ UNCHANGED <<cancelled, i, inputSum, inputCount, delivered, observed,
                   workerVars, collectorVars, closerVars, mainVars, chOut>>

\* select { case <-ctx.Done(): return (deferred close(ch)); default: ... }
GeneratorSelect ==
    /\ gpc = "select"
    /\ IF cancelled
         THEN /\ gpc' = "done"
              /\ chInCloses' = chInCloses + 1
         ELSE /\ i <= MaxVal
              /\ gpc' = "send"
              /\ UNCHANGED chInCloses
    /\ UNCHANGED <<cancelled, i, inputSum, inputCount, delivered, observed,
                   workerVars, collectorVars, closerVars, mainVars, chOut>>

\* Variant: a non-blocking send (select with an empty default) that goes on
\* to fn(i) whether or not Worker w took the value.
GeneratorSendLossy(w) ==
    /\ gpc = "send"
    /\ chInCloses = 0
    /\ gpc' = "fnSum"
    /\ IF wpc[w] = "recv"
         THEN /\ wpc' = [wpc EXCEPT ![w] = "send"]
              /\ wv' = [wv EXCEPT ![w] = i]
              /\ delivered' = Append(delivered, i)
              /\ wrecv' = [wrecv EXCEPT ![w] = Append(@, i)]
         ELSE UNCHANGED <<wpc, wv, delivered, wrecv>>
    /\ UNCHANGED <<cancelled, i, chInCloses, inputSum, inputCount, observed,
                   outsCloses, wsent, collectorVars, closerVars, mainVars, chOut>>

\* Variant: the value is handed to every Worker standing at its receive
\* (a broadcast instead of a hand-over to one receiver).
GeneratorSendBroadcast(w) ==
    /\ gpc = "send"
    /\ chInCloses = 0
    /\ wpc[w] = "recv"
    /\ gpc' = "fnSum"
    /\ wpc' = [x \in Workers |-> IF wpc[x] = "recv" THEN "send" ELSE wpc[x]]
    /\ wv' = [x \in Workers |-> IF wpc[x] = "recv" THEN i ELSE wv[x]]
    /\ delivered' = Append(delivered, i)
    /\ wrecv' = [x \in Workers |->
                    IF wpc[x] = "recv" THEN Append(wrecv[x], i) ELSE wrecv[x]]
    /\ UNCHANGED <<cancelled, i, chInCloses, inputSum, inputCount, observed,
                   outsCloses, wsent, collectorVars, closerVars, mainVars, chOut>>

\* Variant: a dispatcher with a fixed preference; the value goes to the
\* lowest-numbered Worker standing at its receive.
GeneratorSendLowest(w) ==
    /\ gpc = "send"
    /\ chInCloses = 0
    /\ wpc[w] = "recv"
    /\ \A x \in Workers : x < w => wpc[x] # "recv"
    /\ gpc' = "fnSum"
    /\ wpc' = [wpc EXCEPT ![w] = "send"]
    /\ wv' = [wv EXCEPT ![w] = i]
    /\ delivered' = Append(delivered, i)
    /\ wrecv' = [wrecv EXCEPT ![w] = Append(@, i)]
    /\ UNCHANGED <<cancelled, i, chInCloses, inputSum, inputCount, observed,
                   outsCloses, wsent, collectorVars, closerVars, mainVars, chOut>>

\* Variant: a round-robin dispatcher; value i goes to Worker ((i-1) mod
\* NumOut) + 1 and to no other.
GeneratorSendRoundRobin(w) ==
    /\ gpc = "send"
    /\ chInCloses = 0
    /\ wpc[w] = "recv"
    /\ w = ((i - 1) % NumOut) + 1
    /\ gpc' = "fnSum"
    /\ wpc' = [wpc EXCEPT ![w] = "send"]
    /\ wv' = [wv EXCEPT ![w] = i]
    /\ delivered' = Append(delivered, i)
    /\ wrecv' = [wrecv EXCEPT ![w] = Append(@, i)]
    /\ UNCHANGED <<cancelled, i, chInCloses, inputSum, inputCount, observed,
                   outsCloses, wsent, collectorVars, closerVars, mainVars, chOut>>

\* Variant: the send races against cancellation (select over ch <- i and
\* ctx.Done()); with ctx.Done() closed the Generator may return instead.
GeneratorSendOrCancel(w) ==
    /\ gpc = "send"
    /\ chInCloses = 0
    /\ IF cancelled
         THEN /\ gpc' = "done"
              /\ chInCloses' = chInCloses + 1
              /\ UNCHANGED <<wpc, wv, delivered, wrecv>>
         ELSE /\ wpc[w] = "recv"
              /\ gpc' = "fnSum"
              /\ wpc' = [wpc EXCEPT ![w] = "send"]
              /\ wv' = [wv EXCEPT ![w] = i]
              /\ delivered' = Append(delivered, i)
              /\ wrecv' = [wrecv EXCEPT ![w] = Append(@, i)]
              /\ UNCHANGED chInCloses
    /\ UNCHANGED <<cancelled, i, inputSum, inputCount, observed,
                   outsCloses, wsent, collectorVars, closerVars, mainVars, chOut>>

\* ch <- i meets Worker w's receive in "for v := range in".
GeneratorSend(w) ==
    /\ gpc = "send"
    /\ chInCloses = 0
    /\ wpc[w] = "recv"
    /\ gpc' = "fnSum"
    /\ wpc' = [wpc EXCEPT ![w] = "send"]
    /\ wv' = [wv EXCEPT ![w] = i]
    /\ delivered' = Append(delivered, i)
    /\ wrecv' = [wrecv EXCEPT ![w] = Append(@, i)]
    /\ UNCHANGED <<cancelled, i, chInCloses, inputSum, inputCount, observed,
                   outsCloses, wsent, collectorVars, closerVars, mainVars, chOut>>

\* Variant: the addends of the two atomic adds are swapped; inputSum gets 1.
GeneratorFnSumOne ==
    /\ gpc = "fnSum"
    /\ inputSum' = inputSum + 1
    /\ observed' = Append(observed, i)
    /\ gpc' = "fnCount"
    /\ UNCHANGED <<cancelled, i, chInCloses, inputCount, delivered,
                   workerVars, collectorVars, closerVars, mainVars, chOut>>

\* fn(i), first statement: atomic.AddInt64(&inputSum, i)
GeneratorFnSum ==
    /\ gpc = "fnSum"
    /\ inputSum' = inputSum + i
    /\ observed' = Append(observed, i)
    /\ gpc' = "fnCount"
    /\ UNCHANGED <<cancelled, i, chInCloses, inputCount, delivered,
                   workerVars, collectorVars, closerVars, mainVars, chOut>>

\* Variant: the i++ is missing.
GeneratorFnCountNoInc ==
    /\ gpc = "fnCount"
    /\ inputCount' = inputCount + 1
    /\ gpc' = "select"
    /\ inputCount < MaxVal
    /\ UNCHANGED <<cancelled, i, chInCloses, inputSum, delivered, observed,
                   workerVars, collectorVars, closerVars, mainVars, chOut>>

\* fn(i), second statement: atomic.AddInt64(&inputCount, 1); then i++
GeneratorFnCount ==
    /\ gpc = "fnCount"
    /\ inputCount' = inputCount + 1
    /\ i' = i + 1
    /\ gpc' = "select"
    /\ UNCHANGED <<cancelled, chInCloses, inputSum, delivered, observed,
                   workerVars, collectorVars, closerVars, mainVars, chOut>>

----
\* Worker

\* Variant: a non-blocking receive; the Worker returns (and closes out) as
\* soon as no value is offered, whether or not in is closed.
WorkerCloseWhenIdle(w) ==
    /\ wpc[w] = "recv"
    /\ gpc # "send"
    /\ wpc' = [wpc EXCEPT ![w] = "done"]
    /\ outsCloses' = [outsCloses EXCEPT ![w] = @ + 1]
    /\ UNCHANGED <<cancelled, genVars, wv, wrecv, wsent, collectorVars,
                   closerVars, mainVars, chOut>>

\* "for v := range in" finds in closed: return, deferred close(out).
WorkerClose(w) ==
    /\ wpc[w] = "recv"
    /\ chInCloses > 0
    /\ wpc' = [wpc EXCEPT ![w] = "done"]
    /\ outsCloses' = [outsCloses EXCEPT ![w] = @ + 1]
    /\ UNCHANGED <<cancelled, genVars, wv, wrecv, wsent, collectorVars,
                   closerVars, mainVars, chOut>>

\* out <- v meets Collector w's receive in "for v := range in_cn"; then
\* time.Sleep(time.Millisecond), which touches nothing shared, and back to
\* the head of the loop.
WorkerSend(w) ==
    /\ wpc[w] = "send"
    /\ outsCloses[w] = 0
    /\ cpc[w] = "recv"
    /\ wpc' = [wpc EXCEPT ![w] = "recv"]
    /\ cpc' = [cpc EXCEPT ![w] = "tally"]
    /\ cv' = [cv EXCEPT ![w] = wv[w]]
    /\ wsent' = [wsent EXCEPT ![w] = Append(@, wv[w])]
    /\ UNCHANGED <<cancelled, genVars, wv, outsCloses, wrecv, amounts, wg,
                   csent, closerVars, mainVars, chOut>>

----
\* Collector

\* Variant: amounts[cn] += v instead of amounts[cn]++.
CollectorTallyValue(c) ==
    /\ cpc[c] = "tally"
    /\ amounts' = [amounts EXCEPT ![c] = @ + cv[c]]
    /\ cpc' = [cpc EXCEPT ![c] = "send"]
    /\ UNCHANGED <<cancelled, genVars, workerVars, cv, wg, csent, closerVars,
                   mainVars, chOut>>

\* Variant: the goroutine uses a shared index instead of its own cn.
CollectorTallyWrongIndex(c) ==
    /\ cpc[c] = "tally"
    /\ amounts' = [amounts EXCEPT ![1] = @ + 1]
    /\ cpc' = [cpc EXCEPT ![c] = "send"]
    /\ UNCHANGED <<cancelled, genVars, workerVars, cv, wg, csent, closerVars,
                   mainVars, chOut>>

\* amounts[cn]++
CollectorTally(c) ==
    /\ cpc[c] = "tally"
    /\ amounts' = [amounts EXCEPT ![c] = @ + 1]
    /\ cpc' = [cpc EXCEPT ![c] = "send"]
    /\ UNCHANGED <<cancelled, genVars, workerVars, cv, wg, csent, closerVars,
                   mainVars, chOut>>

\* Variant: a non-blocking send that drops the value when the buffer is full.
CollectorSendDrop(c) ==
    /\ cpc[c] = "send"
    /\ chOutCloses = 0
    /\ chOut' = IF Len(chOut) < NumOut THEN Append(chOut, cv[c]) ELSE chOut
    /\ csent' = [csent EXCEPT ![c] =
                    IF Len(chOut) < NumOut THEN Append(@, cv[c]) ELSE @]
    /\ cpc' = [cpc EXCEPT ![c] = "recv"]
    /\ UNCHANGED <<cancelled, genVars, workerVars, cv, amounts, wg,
                   closerVars, mainVars>>

\* Variant: the result channel hands values out last-in first-out.
CollectorSendStack(c) ==
    /\ cpc[c] = "send"
    /\ chOutCloses = 0
    /\ Len(chOut) < NumOut
    /\ chOut' = <<cv[c]>> \o chOut
    /\ csent' = [csent EXCEPT ![c] = Append(@, cv[c])]
    /\ cpc' = [cpc EXCEPT ![c] = "recv"]
    /\ UNCHANGED <<cancelled, genVars, workerVars, cv, amounts, wg,
                   closerVars, mainVars>>

\* Variant: the buffer of chOut is one slot larger (make(chan int64, NumOut+1)).
CollectorSendExtraSlot(c) ==
    /\ cpc[c] = "send"
    /\ chOutCloses = 0
    /\ Len(chOut) <= NumOut
    /\ chOut' = Append(chOut, cv[c])
    /\ csent' = [csent EXCEPT ![c] = Append(@, cv[c])]
    /\ cpc' = [cpc EXCEPT ![c] = "recv"]
    /\ UNCHANGED <<cancelled, genVars, workerVars, cv, amounts, wg,
                   closerVars, mainVars>>

\* chOut <- v: needs room in the buffer.
CollectorSend(c) ==
    /\ cpc[c] = "send"
    /\ chOutCloses = 0
    /\ Len(chOut) < NumOut
    /\ chOut' = Append(chOut, cv[c])
    /\ csent' = [csent EXCEPT ![c] = Append(@, cv[c])]
    /\ cpc' = [cpc EXCEPT ![c] = "recv"]
    /\ UNCHANGED <<cancelled, genVars, workerVars, cv, amounts, wg,
                   closerVars, mainVars>>

\* Variant: the deferred wg.Done() is missing.
CollectorDoneNoSignal(c) ==
    /\ cpc[c] = "recv"
    /\ outsCloses[c] > 0
    /\ cpc' = [cpc EXCEPT ![c] = "done"]
    /\ UNCHANGED <<cancelled, genVars, workerVars, cv, amounts, wg, csent,
                   closerVars, mainVars, chOut>>

\* Variant: the Collector returns when ctx.Done() is closed instead of when
\* its channel is closed.
CollectorDoneOnCancel(c) ==
    /\ cpc[c] = "recv"
    /\ cancelled
    /\ cpc' = [cpc EXCEPT ![c] = "done"]
    /\ wg' = wg - 1
    /\ UNCHANGED <<cancelled, genVars, workerVars, cv, amounts, csent,
                   closerVars, mainVars, chOut>>

\* "for v := range in_cn" finds in_cn closed: return, deferred wg.Done().
CollectorDone(c) ==
    /\ cpc[c] = "recv"
    /\ outsCloses[c] > 0
    /\ cpc' = [cpc EXCEPT ![c] = "done"]
    /\ wg' = wg - 1
    /\ UNCHANGED <<cancelled, genVars, workerVars, cv, amounts, csent,
                   closerVars, mainVars, chOut>>

----
\* Closer

\* Variant: the closer does not wait for the collectors.
CloserNoWait ==
    /\ clpc = "wait"
    /\ clpc' = "close"
    /\ UNCHANGED <<cancelled, genVars, workerVars, collectorVars, chOutCloses,
                   mainVars, chOut>>

\* wg.Wait() returns once the counter is zero.
CloserWait ==
    /\ clpc = "wait"
    /\ wg = 0
    /\ clpc' = "close"
    /\ UNCHANGED <<cancelled, genVars, workerVars, collectorVars, chOutCloses,
                   mainVars, chOut>>

\* close(chOut)
CloserClose ==
    /\ clpc = "close"
    /\ chOutCloses' = chOutCloses + 1
    /\ clpc' = "done"
    /\ UNCHANGED <<cancelled, genVars, workerVars, collectorVars, mainVars, chOut>>

----
\* Aggregator and Verifier (main)

\* for v := range chOut { count++; sum += v }
AggregatorRecv ==
    /\ mpc = "range"
    /\ Len(chOut) > 0
    /\ count' = count + 1
    /\ sum' = sum + Head(chOut)
    /\ got' = Append(got, Head(chOut))
    /\ chOut' = Tail(chOut)
    /\ UNCHANGED <<cancelled, genVars, workerVars, collectorVars, closerVars,
                   mpc, verdict>>

\* Variant: a non-blocking receive; the loop ends as soon as chOut is empty,
\* closed or not.
AggregatorEndOnEmpty ==
    /\ mpc = "range"
    /\ Len(chOut) = 0
    /\ mpc' = "verify"
    /\ UNCHANGED <<cancelled, genVars, workerVars, collectorVars, closerVars,
                   count, sum, verdict, got, chOut>>

\* the range loop ends: chOut is closed and drained.
AggregatorEnd ==
    /\ mpc = "range"
    /\ Len(chOut) = 0
    /\ chOutCloses > 0
    /\ mpc' = "verify"
    /\ UNCHANGED <<cancelled, genVars, workerVars, collectorVars, closerVars,
                   count, sum, verdict, got, chOut>>

\* The checks of lines 134-145, in the code's order.
Check(iSum, iCount, s, n, am) ==
    IF iSum # s THEN "sumMismatch"
    ELSE IF iCount # n THEN "countMismatch"
    ELSE IF iCount - SumTo(am, NumOut) # 0 THEN "distMismatch"
    ELSE "ok"

\* main reads the counters, checks them and returns (deferred cancel()).
Verify ==
    /\ mpc = "verify"
    /\ verdict' = Check(inputSum, inputCount, sum, count, amounts)
    /\ mpc' = "done"
    /\ cancelled' = TRUE
    /\ UNCHANGED <<genVars, workerVars, collectorVars, closerVars,
                   count, sum, got, chOut>>

----
Next ==
    \/ Timeout
    \/ GeneratorSelect
    \/ \E w \in Workers : GeneratorSend(w)
    \/ GeneratorFnSum
    \/ GeneratorFnCount
    \/ \E w \in Workers : WorkerClose(w)
    \/ \E w \in Workers : WorkerSend(w)
    \/ \E c \in Workers : CollectorTally(c)
    \/ \E c \in Workers : CollectorSend(c)
    \/ \E c \in Workers : CollectorDone(c)
    \/ CloserWait
    \/ CloserClose
    \/ AggregatorRecv
    \/ AggregatorEnd
    \/ Verify

Spec == Init /\ [][Next]_vars

----
\* Scheduling: the Go scheduler runs every runnable goroutine eventually, and
\* the deadline of context.WithTimeout passes eventually.
Generator == GeneratorSelect \/ (\E w \in Workers : GeneratorSend(w))
                \/ GeneratorFnSum \/ GeneratorFnCount
Worker(w) == WorkerClose(w) \/ WorkerSend(w)
Collector(c) == CollectorTally(c) \/ CollectorSend(c) \/ CollectorDone(c)
Closer == CloserWait \/ CloserClose
Main == AggregatorRecv \/ AggregatorEnd \/ Verify

Fairness ==
    /\ WF_vars(Timeout)
    /\ WF_vars(Generator)
    /\ \A w \in Workers : WF_vars(Worker(w))
    /\ \A c \in Workers : WF_vars(Collector(c))
    /\ WF_vars(Closer)
    /\ WF_vars(Main)

FairSpec == Spec /\ Fairness

----
\* The run in which the Collectors of Stalled are never scheduled: they take
\* no step, so the Workers of Stalled find no receiver on their private
\* channel.  With a Collector missing, wg never reaches zero, so the Closer's
\* steps and the end of main's loop are not steps of this run.
Stalled == {c \in Workers : c = 1}
Running == Workers \ Stalled

StallNext ==
    \/ Timeout
    \/ GeneratorSelect
    \/ \E w \in Workers : GeneratorSend(w)
    \/ GeneratorFnSum
    \/ GeneratorFnCount
    \/ \E w \in Workers : WorkerClose(w)
    \/ \E w \in Running : WorkerSend(w)
    \/ \E c \in Running : CollectorTally(c)
    \/ \E c \in Running : CollectorSend(c)
    \/ \E c \in Running : CollectorDone(c)
    \/ AggregatorRecv

StallFairness ==
    /\ WF_vars(Timeout)
    /\ WF_vars(Generator)
    /\ \A w \in Workers : WF_vars(WorkerClose(w))
    /\ \A w \in Running : WF_vars(WorkerSend(w))
    /\ \A c \in Running : WF_vars(Collector(c))
    /\ WF_vars(AggregatorRecv)

StallSpec == Init /\ [][StallNext]_vars /\ StallFairness

----
\* Vocabulary of the properties

IsPrefix(s, t) == Len(s) <= Len(t) /\ SubSeq(t, 1, Len(s)) = s

\* Number of occurrences of v in s.
Occurrences(s, v) == Cardinality({k \in 1..Len(s) : s[k] = v})

SameMultiset(s, t) ==
    \A v \in Range(s) \cup Range(t) : Occurrences(s, v) = Occurrences(t, v)

StrictlyIncreasing(s) == \A j, k \in 1..Len(s) : j < k => s[j] < s[k]

\* The subsequence of s made of the values in S.
Restrict(s, S) == LET In(v) == v \in S IN SelectSeq(s, In)

\* Everything ever placed on chOut, in the order it was placed.
ResultStream == got \o chOut

AggregatorTerminated == mpc \in {"verify", "done"}

AllTerminated ==
    /\ gpc = "done"
    /\ \A w \in Workers : wpc[w] = "done" /\ cpc[w] = "done"
    /\ clpc = "done"
    /\ mpc = "done"

\* A step of some task (the timer is not a task).
TaskStep ==
    \/ GeneratorSelect
    \/ \E w \in Workers : GeneratorSend(w)
    \/ GeneratorFnSum
    \/ GeneratorFnCount
    \/ \E w \in Workers : WorkerClose(w)
    \/ \E w \in Workers : WorkerSend(w)
    \/ \E c \in Workers : CollectorTally(c)
    \/ \E c \in Workers : CollectorSend(c)
    \/ \E c \in Workers : CollectorDone(c)
    \/ CloserWait
    \/ CloserClose
    \/ AggregatorRecv
    \/ AggregatorEnd
    \/ Verify

\* The generator stands before a value beyond MaxVal and the deadline has not
\* passed: the model waits for the deadline here (the program would go on).
AtValueBound == gpc = "select" /\ ~cancelled /\ i > MaxVal

----
\* C1 - Multiset conservation: once the Aggregator has terminated, the values
\* it received are, with multiplicities, the values the Generator delivered
\* to chIn; count = inputCount and sum = inputSum, and the Verifier reports
\* neither a count nor a sum mismatch.
C1_MultisetConservation ==
    AggregatorTerminated =>
        /\ SameMultiset(got, delivered)
        /\ count = Len(delivered)
        /\ sum = SeqSum(delivered)
        /\ count = inputCount
        /\ sum = inputSum
        /\ verdict \notin {"sumMismatch", "countMismatch"}

C1_Witness ==
    /\ mpc = "done"
    /\ Len(delivered) = MaxVal
    /\ count = MaxVal
    /\ \A w \in Workers : wrecv[w] # <<>>

\* C2 - Tally partition: once the Aggregator has terminated, the per-worker
\* tallies add up to the Aggregator's count and to the Generator-observed
\* count, and the Verifier reports no distribution mismatch.
C2_TallyPartition ==
    AggregatorTerminated =>
        /\ SumTo(amounts, NumOut) = count
        /\ SumTo(amounts, NumOut) = inputCount
        /\ verdict # "distMismatch"

C2_Witness ==
    /\ mpc = "done"
    /\ \A c \in Workers : amounts[c] > 0
    /\ SumTo(amounts, NumOut) = MaxVal

\* C3 - Termination: under fair scheduling, once cancellation has fired every
\* task terminates; and before main has terminated some task can always take
\* a step (no state has every task blocked).
C3_Termination ==
    /\ [](mpc # "done" => (ENABLED TaskStep) \/ AtValueBound)
    /\ (cancelled ~> AllTerminated)

C3_Witness ==
    /\ AllTerminated
    /\ count = MaxVal
    /\ \E w \in Workers : Len(wrecv[w]) >= 2

\* C4 - Exactly-once close of chOut: chOut is closed at most once, only when
\* every Collector has terminated (all wg.Done() made), and under fair
\* scheduling it is eventually closed once cancellation has fired.
C4_ExactlyOnceClose ==
    /\ [](chOutCloses <= 1)
    /\ [](chOutCloses > 0 => wg = 0 /\ \A c \in Workers : cpc[c] = "done")
    /\ [][chOutCloses' # chOutCloses => \A c \in Workers : cpc[c] = "done"]_vars
    /\ (cancelled ~> chOutCloses = 1)

C4_Witness ==
    /\ chOutCloses = 1
    /\ mpc = "range"
    /\ Len(chOut) > 0
    /\ \A c \in Workers : Len(csent[c]) > 0

\* C5 - No send on a closed channel: the Generator never stands at its send
\* with chIn closed, no Worker stands at its send with its private channel
\* closed, no Collector stands at its send with chOut closed.
C5_NoSendOnClosed ==
    /\ ~(gpc = "send" /\ chInCloses > 0)
    /\ \A w \in Workers : ~(wpc[w] = "send" /\ outsCloses[w] > 0)
    /\ \A c \in Workers : ~(cpc[c] = "send" /\ chOutCloses > 0)

C5_Witness ==
    /\ chInCloses > 0
    /\ \E w \in Workers : wpc[w] = "send"
    /\ \E w \in Workers : outsCloses[w] > 0
    /\ \E c \in Workers : cpc[c] = "send"

\* C6 - Observer ordering: the calls of fn are, in order, the values delivered
\* to chIn, each once; a call never precedes its delivery, at most the last
\* delivered value is still to be observed, and once the Generator has
\* terminated the calls are exactly the deliveries.
C6_ObserverOrdering ==
    /\ IsPrefix(observed, delivered)
    /\ Len(delivered) <= Len(observed) + 1
    /\ (Len(delivered) = Len(observed) + 1 <=> gpc = "fnSum")
    /\ \A v \in Range(observed) : Occurrences(observed, v) = Occurrences(delivered, v)
    /\ (gpc = "done" =>
            /\ observed = delivered
            /\ inputCount = Len(delivered)
            /\ inputSum = SeqSum(delivered))

C6_Witness ==
    /\ gpc = "done"
    /\ Len(observed) = MaxVal
    /\ mpc = "range"

\* C7 - Generator sequence: the k-th delivered value is k, and the sequence
\* counter i has been incremented once per delivered value (it is one ahead
\* of the deliveries except between a delivery and its i++).
C7_GeneratorSequence ==
    /\ \A k \in 1..Len(delivered) : delivered[k] = k
    /\ i = IF gpc \in {"fnSum", "fnCount"}
             THEN Len(delivered) ELSE Len(delivered) + 1

C7_Witness ==
    /\ Len(delivered) = MaxVal
    /\ gpc = "select"
    /\ i = MaxVal + 1

\* C8 - Per-worker order preservation: what Worker w forwards is strictly
\* increasing and is what it received, in order; what Collector w placed on
\* chOut is a prefix of that; and the values of Collector w appear on chOut in
\* that same order.
C8_PerWorkerOrder ==
    \A w \in Workers :
        /\ StrictlyIncreasing(wsent[w])
        /\ IsPrefix(wsent[w], wrecv[w])
        /\ IsPrefix(csent[w], wsent[w])
        /\ Restrict(ResultStream, Range(csent[w])) = csent[w]

C8_Witness ==
    /\ \E w \in Workers : Len(csent[w]) >= 2
    /\ \E j, k \in 1..Len(got) : j < k /\ got[j] > got[k]
    /\ Len(got) = MaxVal

\* C9 - Exactly-once fan-out: every value delivered to chIn was received by
\* exactly one Worker, once.
C9_ExactlyOnceFanOut ==
    /\ \A v \in Range(delivered) :
          Cardinality({w \in Workers : v \in Range(wrecv[w])}) = 1
    /\ \A w \in Workers : \A v \in Range(wrecv[w]) : Occurrences(wrecv[w], v) = 1
    /\ \A w, x \in Workers : w # x => Range(wrecv[w]) \cap Range(wrecv[x]) = {}
    /\ UNION {Range(wrecv[w]) : w \in Workers} = Range(delivered)

C9_Witness ==
    /\ Len(delivered) >= NumOut
    /\ \A w \in Workers : wpc[w] = "recv" /\ wrecv[w] # <<>>
    /\ gpc = "send"

\* C10 - Immediate cancel: if cancellation has fired before the Generator's
\* first check, then under fair scheduling the pipeline terminates with no
\* value delivered, all counters and tallies 0, every channel closed, and the
\* Verifier reporting no mismatch.
CleanEmptyRun ==
    /\ AllTerminated
    /\ delivered = <<>>
    /\ inputCount = 0 /\ inputSum = 0 /\ count = 0 /\ sum = 0
    /\ \A c \in Workers : amounts[c] = 0
    /\ chInCloses = 1
    /\ \A w \in Workers : outsCloses[w] = 1
    /\ chOutCloses = 1
    /\ verdict = "ok"

C10_ImmediateCancel ==
    (cancelled /\ gpc = "select" /\ i = 1) ~> []CleanEmptyRun

C10_Witness == CleanEmptyRun

\* C11 - Upstream closes: chIn is closed at most once, and it is closed
\* exactly when the Generator has stopped; outs[w] is closed at most once,
\* exactly when Worker w has stopped, only with chIn closed and only when
\* Worker w has forwarded every value it received.
C11_UpstreamCloses ==
    /\ [](chInCloses <= 1 /\ (chInCloses = 1 <=> gpc = "done"))
    /\ [][chInCloses' # chInCloses => gpc = "select" /\ gpc' = "done"]_vars
    /\ [](\A w \in Workers :
            /\ outsCloses[w] <= 1
            /\ (outsCloses[w] = 1 <=> wpc[w] = "done")
            /\ (outsCloses[w] = 1 => chInCloses = 1 /\ wsent[w] = wrecv[w]))
    /\ [][\A w \in Workers :
            outsCloses'[w] # outsCloses[w] =>
                wpc[w] = "recv" /\ wpc'[w] = "done" /\ chInCloses = 1]_vars

C11_Witness ==
    /\ \E w \in Workers : outsCloses[w] = 1 /\ Len(wrecv[w]) >= 1
    /\ \E w \in Workers : outsCloses[w] = 0 /\ wpc[w] = "send"
    /\ chInCloses = 1

\* C12 - Causal teardown: nothing terminates before cancellation; the
\* Generator stops only with cancellation fired, a Worker only with chIn
\* closed, Collector c only with outs[c] closed, the Closer closes chOut only
\* with every Collector done, and main leaves its loop only with chOut closed.
C12_CausalTeardown ==
    /\ [](gpc = "done" => cancelled)
    /\ [](\A w \in Workers : wpc[w] = "done" => chInCloses > 0)
    /\ [](\A c \in Workers : cpc[c] = "done" => outsCloses[c] > 0)
    /\ [](chOutCloses > 0 => \A c \in Workers : cpc[c] = "done")
    /\ [](AggregatorTerminated => chOutCloses > 0)
    /\ [][gpc' = "done" /\ gpc # "done" => cancelled]_vars
    /\ [][\A w \in Workers :
            wpc'[w] = "done" /\ wpc[w] # "done" => chInCloses > 0]_vars
    /\ [][\A c \in Workers :
            cpc'[c] = "done" /\ cpc[c] # "done" => outsCloses[c] > 0]_vars
    /\ [][chOutCloses' > chOutCloses => \A c \in Workers : cpc[c] = "done"]_vars
    /\ [][AggregatorTerminated' /\ ~AggregatorTerminated => chOutCloses > 0]_vars

C12_Witness ==
    /\ chInCloses = 1
    /\ \E w \in Workers : cpc[w] = "done" /\ Len(csent[w]) >= 1
    /\ \E w \in Workers : wpc[w] # "done"
    /\ chOutCloses = 0
    /\ clpc = "wait"

\* C13 - No global order across workers: main can receive a larger value
\* before a smaller one (the witness is such a state), and only when the two
\* came through different Workers; and which Worker receives a value is not
\* determined: whenever the Generator stands at its send, every Worker
\* standing at its receive can be the receiver.
Inverted(s) == \E j, k \in 1..Len(s) : j < k /\ s[j] > s[k]

C13_NoGlobalOrder ==
    /\ \A j, k \in 1..Len(got) :
          j < k /\ got[j] > got[k] =>
              \A w \in Workers : ~({got[j], got[k]} \subseteq Range(wrecv[w]))
    /\ (gpc = "send" =>
          \A w \in Workers : wpc[w] = "recv" => ENABLED GeneratorSend(w))

C13_Witness ==
    /\ Inverted(got)
    /\ gpc = "send"
    /\ Cardinality({w \in Workers : ENABLED GeneratorSend(w)}) >= 2

\* C14 - Backpressure isolation: in the run where the Collectors of Stalled
\* take no step, each of their Workers takes at most one value and then stays
\* blocked at its send; every other Worker still receives and forwards, and
\* the Generator still delivers: under fair scheduling of the other tasks the
\* Generator stops, the other Workers and Collectors finish, and every
\* delivered value except the ones held by the blocked Workers reaches main.
OthersFinished ==
    /\ gpc = "done"
    /\ \A w \in Running :
          wpc[w] = "done" /\ cpc[w] = "done" /\ csent[w] = wrecv[w]
    /\ Len(delivered) - Len(got) =
          Cardinality({s \in Stalled : wrecv[s] # <<>>})

C14_BackpressureIsolation ==
    /\ [](\A s \in Stalled : Len(wrecv[s]) <= 1 /\ wsent[s] = <<>>)
    /\ [][\A s \in Stalled : wpc[s] = "send" => wpc'[s] = "send"]_vars
    /\ [](~ENABLED CloserWait /\ clpc = "wait" /\ mpc = "range")
    /\ <>[]OthersFinished

C14_Witness ==
    /\ \A s \in Stalled : wpc[s] = "send" /\ wrecv[s] = <<1>>
    /\ Len(delivered) = MaxVal
    /\ Len(got) = MaxVal - Cardinality(Stalled)
    /\ \E w \in Running : Len(csent[w]) >= 2

\* C15 - Tally ownership, as claimed: at every state amounts[c] is the number
\* of values Collector c has received (the values handed over on outs[c]).
C15_TallyEqualsReceived ==
    \A c \in Workers : amounts[c] = Len(wsent[c])

\* C15 - Tally ownership, amended: amounts[c] changes only in Collector c's
\* own increment, by one, once per value received and before that value is
\* placed on chOut; amounts[c] is the number of values Collector c has
\* received, less the one it has received and not yet counted.
Uncounted(c) == IF cpc[c] = "tally" THEN 1 ELSE 0
Unsent(c) == IF cpc[c] = "send" THEN 1 ELSE 0

C15_TallyOwnership ==
    /\ [](\A c \in Workers : amounts[c] = Len(wsent[c]) - Uncounted(c))
    /\ [](\A c \in Workers : amounts[c] = Len(csent[c]) + Unsent(c))
    /\ [][\A c \in Workers :
            amounts'[c] # amounts[c] =>
                /\ cpc[c] = "tally" /\ cpc'[c] = "send"
                /\ amounts'[c] = amounts[c] + 1
                /\ \A d \in Workers \ {c} : amounts'[d] = amounts[d]
                /\ csent' = csent /\ wsent' = wsent]_vars

C15_Witness ==
    /\ \E c \in Workers : cpc[c] = "tally" /\ amounts[c] >= 1
    /\ \E c \in Workers : cpc[c] = "send" /\ amounts[c] >= 1

\* C16 - Generator blocking past the deadline: the Generator looks at
\* cancellation only at its select; once it stands at its send it leaves only
\* by handing the value to a Worker, whether or not cancellation has fired.
\* With no Worker at its receive it cannot take a step, and if no Worker is
\* ever at its receive again it stays at the send for ever with chIn open.
NoReader == \A w \in Workers : wpc[w] # "recv"

C16_BlockedPastDeadline ==
    /\ [](gpc = "send" => chInCloses = 0)
    /\ [](gpc = "send" /\ NoReader => ~ENABLED Generator)
    /\ [][gpc = "send" /\ gpc' # "send" =>
            /\ gpc' = "fnSum"
            /\ Len(delivered') = Len(delivered) + 1
            /\ \E w \in Workers : wpc[w] = "recv" /\ wpc'[w] = "send"]_vars
    /\ [](gpc = "send" /\ cancelled =>
            ([]NoReader => [](gpc = "send" /\ chInCloses = 0)))

C16_Witness ==
    /\ gpc = "send"
    /\ cancelled
    /\ NoReader
    /\ chInCloses = 0

\* C17 - Bounded overrun after cancellation: from any state in which
\* cancellation has fired, at most one more value is ever delivered to chIn,
\* and only by a send the Generator already stood at; once cancelled and not
\* at its send, the Generator never sends again, and its next select returns
\* and closes chIn.
C17_BoundedOverrun ==
    /\ \A n \in 0..MaxVal :
          [](cancelled /\ Len(delivered) = n => [](Len(delivered) <= n + 1))
    /\ [][cancelled /\ delivered' # delivered => gpc = "send"]_vars
    /\ [][cancelled /\ gpc # "send" => gpc' # "send"]_vars
    /\ [][cancelled /\ gpc = "select" /\ gpc' # "select" =>
            gpc' = "done" /\ chInCloses' = 1]_vars

C17_Witness ==
    /\ cancelled
    /\ gpc = "send"
    /\ Len(delivered) >= 1
    /\ \E w \in Workers : ENABLED GeneratorSend(w)

\* C18 - Quiescence at verification: once main has left its loop, the
\* Generator has made its last call of fn and closed chIn, every Worker and
\* every Collector has terminated with its last tally made, the Closer is
\* done; and from then on no step writes inputCount, inputSum or amounts.
Quiescent ==
    /\ gpc = "done"
    /\ chInCloses = 1
    /\ observed = delivered
    /\ inputCount = Len(delivered)
    /\ \A w \in Workers :
          /\ wpc[w] = "done"
          /\ cpc[w] = "done"
          /\ amounts[w] = Len(wrecv[w])
    /\ clpc = "done"

HeldByWorkers == Cardinality({w \in Workers : wpc[w] = "send"})
HeldByCollectors == Cardinality({c \in Workers : cpc[c] \in {"tally", "send"}})
InFlight == Len(delivered) - count

C20_TriangularTotals ==
    AggregatorTerminated =>
        /\ Len(got) = count
        /\ Range(got) = 1..count
        /\ \A v \in 1..count : Occurrences(got, v) = 1
        /\ sum = (count * (count + 1)) \div 2
        /\ inputSum = (count * (count + 1)) \div 2
        /\ sum = inputSum

C20_Witness ==
    /\ mpc = "done"
    /\ count = MaxVal
    /\ sum = (MaxVal * (MaxVal + 1)) \div 2
    /\ got # delivered

====
